---- MODULE Spec2Model ----
(***************************************************************************)
(* School asset-loan portal: the borrowing-request ledger, the asset       *)
(* catalog, the activity log and the row-level policies that guard them,   *)
(* driven by the handlers of the Items and Requests pages.  Every await on *)
(* a datastore call is a point where other browser sessions interleave, so *)
(* a handler is a sequence of steps, one per datastore statement.          *)
(***************************************************************************)
EXTENDS Integers, Sequences, FiniteSets, Bags, TLC

\* ---------------------------------------------------------------- bounds
MaxRequests == 2
MaxLogs == 6
MaxNow == 2
MaxRoleChanges == 2
MaxFaults == 1
MaxTotal == 40
MaxRuns == 2
MaxRows == 3
MaxCalls == 2

\* ---------------------------------------------------------------- domains
Users == {"adm", "gur", "sis"}
Sessions == Users
Roles == {"admin", "guru", "siswa"}
ItemIds == {"i1", "i2"}
ItemStatus == {"tersedia", "dipinjam", "overdue", "rusak"}
RequestStatus == {"pending", "approved", "rejected", "returned"}
\* items.name is free TEXT.  The seeded catalog names a key after its room;
\* a name may also be the text of the item's own id.
SeedName == "Kunci Lab Komputer 1"
ItemNames == {SeedName, "i1"}
NoteTexts == {"", "tepat waktu"}
Conditions == {"baik", "rusak"}
NullTime == 0
NullId == 0
NullUser == "null"
NullText == "null"
Jurusan == {"trkj", "ti", "trmm"}
Kelas == {"TI-1", "TI-2"}

VARIABLES user_roles, items, borrowing_requests, activity_logs, now,
          roleChanges, faults, userRole, requests, selectedRequest, dialogOpen,
          approvalNotes, pc, call, insertedBy, denied,
          catalog, purged, profiles, reports, dashboard, recentRequests,
          reading, seed, notesFor

vars == <<user_roles, items, borrowing_requests, activity_logs, now,
          roleChanges, faults, userRole, requests, selectedRequest, dialogOpen,
          approvalNotes, pc, call, insertedBy, denied,
          catalog, purged, profiles, reports, dashboard, recentRequests,
          reading, seed, notesFor>>

\* catalog: the ids that have a row in items; purged: the ids of the
\* borrowing_requests rows that were deleted (ids are never reused);
\* profiles: the profiles table; reports: the state of the Reports page;
\* dashboard, recentRequests: the state of the Dashboard page; reading:
\* where each session's page fetches stand between their awaits.  A page
\* has state in the sessions that have it mounted and in no other.
shown == <<reports, dashboard, recentRequests>>
pages == <<shown, reading>>
\* seed: where the seed-data function stands in its script; notesFor[s]: the
\* request whose dialog was open when the text of approvalNotes[s] was typed
\* (an observer)
aside == <<seed, notesFor>>
rest == <<catalog, purged, profiles, pages, aside>>
\* what a statement that changes items or borrowing_requests leaves alone
\* besides the tables: it is published to the Dashboards that are mounted
still == <<catalog, purged, profiles, shown, aside>>

db == <<user_roles, items, borrowing_requests, activity_logs>>
\* now: the clock; roleChanges, faults: counters that cap the behaviours;
\* insertedBy[r]: the session whose INSERT created request r; denied: the
\* caller whose statement a policy refused last (observers, not data)
env == <<now, roleChanges, insertedBy, denied>>
ui == <<userRole, requests, selectedRequest, dialogOpen, approvalNotes>>

\* the rows of borrowing_requests: ids are given in insertion order
RequestIds == (1..Len(borrowing_requests)) \ purged

\* ---------------------------------------------------------------- policies
has_role(_user_id, _role) == <<_user_id, _role>> \in user_roles

IsStaff(uid) == has_role(uid, "admin") \/ has_role(uid, "guru")

CanSelectRequest_Everyone(uid, row) == TRUE

\* "Users can view own requests and all if admin/guru"
CanSelectRequest(uid, row) == row.borrower_id = uid \/ IsStaff(uid)

CanInsertRequest_AnyBorrower(uid, row) == TRUE

\* "Users can create their own requests"
CanInsertRequest(uid, row) == row.borrower_id = uid

\* "Admin and guru can update requests"
CanUpdateRequest(uid, row) == IsStaff(uid)

CanManageItems_Anyone(uid) == TRUE

\* "Admin and guru can manage items"
CanManageItems(uid) == IsStaff(uid)

CanManageRoles_Anyone(uid) == TRUE

\* "Only admins can manage roles"
CanManageRoles(uid) == has_role(uid, "admin")

\* "System can create activity logs"
CanInsertLog(uid, row) == TRUE

CanUpdateProfile_OrAdmin(uid, id) == uid = id \/ has_role(uid, "admin")

\* "Users can update own profile"
CanUpdateProfile(uid, id) == uid = id

\* ---------------------------------------------------------------- tables
NewRequest(item, borrower, purpose, start, end) ==
    [item_id |-> item, borrower_id |-> borrower, purpose |-> purpose,
     start_time |-> start, end_time |-> end, status |-> "pending",
     approved_by |-> NullUser, approved_at |-> NullTime,
     approval_notes |-> NullText, returned_at |-> NullTime,
     return_condition |-> NullText]

LogEntry(rid, action, uid, notes) ==
    [request_id |-> rid, action |-> action, performed_by |-> uid,
     notes |-> notes]

\* Locals of the handler a session is running: the arguments and closure
\* values captured at the click, the rows each awaited statement affected,
\* and (created) the id the datastore gave the row inserted by this call.
IdleCall == [requestId |-> NullId, status |-> "none", notes |-> "",
             itemName |-> NullText, reqRows |-> 0, itemRows |-> {},
             created |-> NullId]

\* new Date(local).toISOString(): a datetime-local value is read in the
\* browser's zone and stored as the UTC instant.
TzOffset == 1

toISOString_AsTyped(local) == local

toISOString(local) == local - TzOffset

\* format(new Date(request.start_time), 'dd MMM yyyy, HH:mm'): a stored
\* instant is shown in the browser's zone
format(instant) == instant + TzOffset

\* the row as the Requests page shows it
ReadBack(row) ==
    [item_id |-> row.item_id, borrower_id |-> row.borrower_id,
     status |-> row.status, start_time |-> format(row.start_time),
     end_time |-> format(row.end_time)]
EmptyTime == 0
FormTimes == {EmptyTime, TzOffset + 1, TzOffset + 2}
Purposes == {"", "Kuliah"}

\* A datastore call either succeeds or returns an error; the number of
\* failing calls in one behaviour is capped.
Outcomes == IF faults < MaxFaults THEN BOOLEAN ELSE {TRUE}
Charge(ok) == faults' = IF ok THEN faults ELSE faults + 1

InFlight == Cardinality({s \in Sessions : pc[s] # "idle"})
LogRoom == BagCardinality(activity_logs) + InFlight < MaxLogs

\* rows of borrowing_requests the caller may read
VisibleRequests(uid) ==
    {r \in RequestIds : CanSelectRequest(uid, borrowing_requests[r])}

SetMax(S) == CHOOSE x \in S : \A y \in S : y <= x

\* .order('created_at', { ascending: false }).limit(1).single(); rows are
\* kept in insertion order, which is their created_at order
LatestVisible(uid) ==
    IF VisibleRequests(uid) = {} THEN NullId ELSE SetMax(VisibleRequests(uid))

\* INSERT into activity_logs: request_id is NOT NULL and references a row.
\* No statement reads the id or the order of the entries: the table is the
\* bag of its rows.
InsertLog(uid, row) ==
    IF row.request_id \in RequestIds /\ CanInsertLog(uid, row)
    THEN activity_logs (+) SetToBag({row}) ELSE activity_logs

\* Reports: useState of stats, itemStats, departmentStats, recentActivities
\* and loading.  departmentStats is the list in the order it is shown.
NoReport ==
    [stats |-> [totalRequests |-> 0, approvedRequests |-> 0,
                rejectedRequests |-> 0, activeLoans |-> 0,
                returnedItems |-> 0, overdueItems |-> 0],
     itemStats |-> {}, departmentStats |-> <<>>, recentActivities |-> {},
     loading |-> TRUE]

\* Dashboard: useState of stats
NoStats ==
    [totalItems |-> 0, availableItems |-> 0, borrowedItems |-> 0,
     overdueItems |-> 0, pendingRequests |-> 0, myActiveRequests |-> 0]

\* reading[s]: which of the Dashboard and Reports pages the session has
\* mounted, and where its fetches stand between their awaits.  due: the
\* calls of fetchStats and of fetchRecentRequests, made by the mount effect
\* or by a change notification, whose first query has not run yet; calls:
\* for each call of fetchStats that awaits its second query, the counts it
\* took from the items it read.
NoDue == [stats |-> 0, recent |-> 0]
NotReading ==
    [page |-> "none", due |-> NoDue, calls |-> EmptyBag, report |-> "idle"]

\* no session has the page mounted
Unmounted == [s \in {} |-> NotReading]

\* the page state f with session s given the state v, and with s taken out
With(f, s, v) == [x \in DOMAIN f \cup {s} |-> IF x = s THEN v ELSE f[x]]
Without(f, s) == [x \in DOMAIN f \ {s} |-> f[x]]

Least(a, b) == IF a <= b THEN a ELSE b

\* the realtime channels of a mounted Dashboard: a change of items calls
\* fetchStats, a change of borrowing_requests calls fetchStats and
\* fetchRecentRequests.  Of the calls that have not run their first query,
\* those past MaxCalls run together with another one.
Notified(itemsChanged, requestsChanged) ==
    LET n == (IF itemsChanged THEN 1 ELSE 0) + (IF requestsChanged THEN 1 ELSE 0)
        m == IF requestsChanged THEN 1 ELSE 0
    IN [s \in DOMAIN reading |->
          IF reading[s].page = "dashboard"
          THEN [reading[s] EXCEPT
                  !.due = [stats |-> Least(@.stats + n, MaxCalls),
                           recent |-> Least(@.recent + m, MaxCalls)]]
          ELSE reading[s]]

\* the seeded accounts: the student has a department and a class
SeedProfile(u) ==
    [jurusan |-> IF u = "sis" THEN "ti" ELSE NullText,
     kelas |-> IF u = "sis" THEN "TI-1" ELSE NullText]

\* the seed-data function: at is the statement it stands before, user the
\* demo user it is working on, runs the number of times it was started
NotSeeding == [at |-> "idle", user |-> NullUser, runs |-> 0]

InitLedger ==
    /\ user_roles = {<<"adm", "admin">>, <<"gur", "guru">>, <<"sis", "siswa">>}
    /\ \E n \in ItemNames :
         items = [i \in ItemIds |->
                    [name |-> IF i = "i1" THEN n ELSE SeedName,
                     status |-> "tersedia"]]
    /\ borrowing_requests = <<>>
    /\ activity_logs = EmptyBag
    /\ now = 1
    /\ roleChanges = 0
    /\ faults = 0
    /\ insertedBy = <<>>
    /\ denied = NullUser
    /\ userRole = [s \in Sessions |->
                     CHOOSE r \in Roles : <<s, r>> \in user_roles]
    /\ requests = [s \in Sessions |-> {}]
    /\ selectedRequest = [s \in Sessions |-> NullId]
    /\ dialogOpen = [s \in Sessions |-> FALSE]
    /\ approvalNotes = [s \in Sessions |-> ""]
    /\ pc = [s \in Sessions |-> "idle"]
    /\ call = [s \in Sessions |-> IdleCall]
    /\ catalog = ItemIds
    /\ purged = {}
    /\ profiles = [u \in Users |-> SeedProfile(u)]
    /\ dashboard = Unmounted
    /\ recentRequests = Unmounted
    /\ seed = NotSeeding
    /\ notesFor = [s \in Sessions |-> NullId]

Init ==
    /\ InitLedger
    /\ reports = Unmounted
    /\ reading = Unmounted

Tick ==
    /\ now < MaxNow
    /\ now' = now + 1
    /\ UNCHANGED <<db, roleChanges, insertedBy, denied, faults, ui, pc, call>>
    /\ UNCHANGED rest

\* ------------------------------------------------- Items.handleBorrowRequest
\* validation of the form, getUser, INSERT into borrowing_requests.  The
\* Pinjam button is drawn for the items the page's list holds as tersedia;
\* every item starts tersedia and the list may be that old, so an open
\* form exists for every item.
HandleBorrowRequest(s, selectedItem, purpose, startTime, endTime) ==
    /\ pc[s] = "idle"
    /\ Len(borrowing_requests) < MaxRequests
    /\ LogRoom
    /\ ~(purpose = "" \/ startTime = EmptyTime \/ endTime = EmptyTime)
    /\ \E ok \in Outcomes :
         /\ Charge(ok)
         /\ LET row == NewRequest(selectedItem, s, purpose,
                                  toISOString(startTime), toISOString(endTime))
            IN IF ok /\ CanInsertRequest(s, row) /\ selectedItem \in catalog
               THEN /\ borrowing_requests' = Append(borrowing_requests, row)
                    /\ insertedBy' = Append(insertedBy, s)
                    /\ pc' = [pc EXCEPT ![s] = "br_log"]
                    /\ call' = [call EXCEPT ![s] =
                           [IdleCall EXCEPT !.created = Len(borrowing_requests) + 1]]
                    /\ reading' = Notified(FALSE, TRUE)
               ELSE UNCHANGED <<borrowing_requests, insertedBy, pc, call, reading>>
    /\ UNCHANGED <<user_roles, items, activity_logs, now, roleChanges, denied, ui>>
    /\ UNCHANGED still

\* the same INSERT sent with a borrower_id that is not the caller's identity
InsertRequestAs(s, borrower, item) ==
    /\ pc[s] = "idle"
    /\ borrower # s
    /\ Len(borrowing_requests) < MaxRequests
    /\ LET row == NewRequest(item, borrower, "Kuliah", toISOString(TzOffset + 1),
                             toISOString(TzOffset + 2))
       IN IF CanInsertRequest(s, row) /\ item \in catalog
          THEN /\ borrowing_requests' = Append(borrowing_requests, row)
               /\ insertedBy' = Append(insertedBy, s)
               /\ reading' = Notified(FALSE, TRUE)
               /\ UNCHANGED denied
          ELSE /\ denied' = s
               /\ UNCHANGED <<borrowing_requests, insertedBy, reading>>
    /\ UNCHANGED <<user_roles, items, activity_logs, now, roleChanges, faults,
                   ui, pc, call>>
    /\ UNCHANGED still

\* the log insert, whose request_id is the newest request the caller can
\* see (the nested query runs first, and nothing it read is read again);
\* neither result is inspected; then the success toast
BorrowLog(s) ==
    /\ pc[s] = "br_log"
    /\ \E found \in Outcomes, ok \in Outcomes :
         /\ faults' = IF found /\ ok THEN faults ELSE faults + 1
         /\ activity_logs' =
               IF ok
               THEN InsertLog(s, LogEntry(IF found THEN LatestVisible(s) ELSE NullId,
                                          "request", s, "Mengajukan peminjaman"))
               ELSE activity_logs
    /\ pc' = [pc EXCEPT ![s] = "idle"]
    /\ call' = [call EXCEPT ![s] = IdleCall]
    /\ UNCHANGED <<user_roles, items, borrowing_requests, env, ui>>
    /\ UNCHANGED rest

\* ------------------------------------------------------- Requests page
StaffRole(r) == r = "admin" \/ r = "guru"

PendingVisible(uid) ==
    {r \in VisibleRequests(uid) : borrowing_requests[r].status = "pending"}

\* fetchRequests, on mount and on every change notification.  Of the rows
\* it stores, the page later reads which ones are pending.
FetchRequests(s) ==
    /\ requests[s] # PendingVisible(s)
    /\ requests' = [requests EXCEPT ![s] = PendingVisible(s)]
    /\ UNCHANGED <<db, env, faults, userRole, selectedRequest,
                   dialogOpen, approvalNotes, pc, call>>
    /\ UNCHANGED rest

\* the Setujui button of a listed request opens the approval dialog
ClickSetujui(s, r) ==
    /\ pc[s] = "idle"
    /\ ~dialogOpen[s]
    /\ r \in requests[s]
    /\ StaffRole(userRole[s])
    /\ selectedRequest' = [selectedRequest EXCEPT ![s] = r]
    /\ dialogOpen' = [dialogOpen EXCEPT ![s] = TRUE]
    /\ UNCHANGED <<db, env, faults, userRole, requests, approvalNotes,
                   pc, call>>
    /\ UNCHANGED rest

\* typing into the dialog's Catatan field
TypeNotes(s, text) ==
    /\ dialogOpen[s]
    /\ approvalNotes[s] # text
    /\ approvalNotes' = [approvalNotes EXCEPT ![s] = text]
    /\ notesFor' = [notesFor EXCEPT ![s] =
                       IF text = "" THEN NullId ELSE selectedRequest[s]]
    /\ UNCHANGED <<db, env, faults, userRole, requests, selectedRequest,
                   dialogOpen, pc, call>>
    /\ UNCHANGED <<catalog, purged, profiles, pages, seed>>

\* the Batal button
ClickBatal(s) ==
    /\ dialogOpen[s]
    /\ dialogOpen' = [dialogOpen EXCEPT ![s] = FALSE]
    /\ approvalNotes' = [approvalNotes EXCEPT ![s] = ""]
    /\ notesFor' = [notesFor EXCEPT ![s] = NullId]
    /\ UNCHANGED <<db, env, faults, userRole, requests, selectedRequest,
                   pc, call>>
    /\ UNCHANGED <<catalog, purged, profiles, pages, seed>>

\* closing the dialog otherwise (onOpenChange)
DismissDialog(s) ==
    /\ dialogOpen[s]
    /\ dialogOpen' = [dialogOpen EXCEPT ![s] = FALSE]
    /\ UNCHANGED <<db, env, faults, userRole, requests, selectedRequest,
                   approvalNotes, pc, call>>
    /\ UNCHANGED rest

\* UPDATE borrowing_requests SET status, approved_by, approved_at,
\* approval_notes WHERE id = requestId, rows filtered by the update policy
UpdatedRequest_KeepsStatus(row, status, uid, notes) ==
    [row EXCEPT !.approved_by = uid, !.approved_at = now,
                !.approval_notes = notes]

UpdatedRequest(row, status, uid, notes) ==
    [row EXCEPT !.status = status, !.approved_by = uid,
                !.approved_at = now, !.approval_notes = notes]

RequestRows(uid, requestId) ==
    {r \in RequestIds : r = requestId /\ CanUpdateRequest(uid, borrowing_requests[r])}

\* UPDATE items SET status = 'dipinjam' WHERE id = selectedRequest.items.name
ItemRows(uid, itemName) ==
    {i \in catalog : i = itemName /\ CanManageItems(uid)}

\* if (status === 'approved' && selectedRequest): whether the call goes on
\* to the item update
UpdatesItem_AnyDecision(status, selected) == selected # NullId

UpdatesItem(status, selected) == status = "approved" /\ selected # NullId

AfterUpdate_IgnoresError(ok, status, selected) ==
    IF UpdatesItem(status, selected) THEN "ar_items" ELSE "ar_log"

\* if (updateError) { ...; return; }: where the call stands after the
\* request update
AfterUpdate(ok, status, selected) ==
    IF ~ok THEN "idle"
    ELSE IF UpdatesItem(status, selected) THEN "ar_items" ELSE "ar_log"

\* handleApproveReject up to its first await: getUser and the request update.
\* selected is the selectedRequest of the render the click came from.
HandleApproveReject(s, requestId, status, selected) ==
    /\ pc[s] = "idle"
    /\ LogRoom
    /\ \E ok \in Outcomes :
         /\ Charge(ok)
         /\ IF ok
            THEN LET rows == RequestRows(s, requestId) IN
                 /\ borrowing_requests' =
                      [r \in DOMAIN borrowing_requests |->
                         IF r \in rows
                         THEN UpdatedRequest(borrowing_requests[r], status, s,
                                             approvalNotes[s])
                         ELSE borrowing_requests[r]]
                 /\ call' = [call EXCEPT ![s] =
                               [IdleCall EXCEPT
                                  !.requestId = requestId, !.status = status,
                                  !.notes = approvalNotes[s],
                                  !.itemName =
                                     IF selected = NullId THEN NullText
                                     ELSE items[borrowing_requests[selected].item_id].name,
                                  !.reqRows = Cardinality(rows)]]
                 /\ reading' = Notified(FALSE, rows # {})
            ELSE UNCHANGED <<borrowing_requests, call, reading>>
         /\ pc' = [pc EXCEPT ![s] = AfterUpdate(ok, status, selected)]
    /\ UNCHANGED <<user_roles, items, activity_logs, env,
                   userRole, requests, dialogOpen, approvalNotes>>
    /\ UNCHANGED still

\* the dialog's Setujui button
ClickDialogSetujui(s) ==
    /\ dialogOpen[s]
    /\ selectedRequest[s] # NullId
    /\ HandleApproveReject(s, selectedRequest[s], "approved", selectedRequest[s])
    /\ UNCHANGED selectedRequest

\* the Tolak button of a listed request
ClickTolak(s, r) ==
    /\ ~dialogOpen[s]
    /\ r \in requests[s]
    /\ StaffRole(userRole[s])
    /\ selectedRequest' = [selectedRequest EXCEPT ![s] = r]
    /\ HandleApproveReject(s, r, "rejected", selectedRequest[s])

\* second await: the item update, result not inspected
ApproveUpdateItem(s) ==
    /\ pc[s] = "ar_items"
    /\ \E ok \in Outcomes :
         /\ Charge(ok)
         /\ LET rows == IF ok THEN ItemRows(s, call[s].itemName) ELSE {} IN
            /\ items' = [i \in ItemIds |->
                           IF i \in rows
                           THEN [items[i] EXCEPT !.status = "dipinjam"]
                           ELSE items[i]]
            /\ call' = [call EXCEPT ![s].itemRows = rows]
            /\ reading' = Notified(rows # {}, FALSE)
    /\ pc' = [pc EXCEPT ![s] = "ar_log"]
    /\ UNCHANGED <<user_roles, borrowing_requests, activity_logs, env, ui>>
    /\ UNCHANGED still

\* third await: the log insert, result not inspected; then the success
\* toast, the dialog and notes are reset and the list is fetched again
ApproveRejectLog(s) ==
    /\ pc[s] = "ar_log"
    /\ \E ok \in Outcomes :
         /\ Charge(ok)
         /\ activity_logs' =
               IF ok
               THEN InsertLog(s, LogEntry(call[s].requestId,
                                          IF call[s].status = "approved"
                                          THEN "approve" ELSE "reject",
                                          s, call[s].notes))
               ELSE activity_logs
    /\ dialogOpen' = [dialogOpen EXCEPT ![s] = FALSE]
    /\ approvalNotes' = [approvalNotes EXCEPT ![s] = ""]
    /\ notesFor' = [notesFor EXCEPT ![s] = NullId]
    /\ requests' = [requests EXCEPT ![s] = PendingVisible(s)]
    /\ pc' = [pc EXCEPT ![s] = "idle"]
    /\ call' = [call EXCEPT ![s] = IdleCall]
    /\ UNCHANGED <<user_roles, items, borrowing_requests, env,
                   userRole, selectedRequest>>
    /\ UNCHANGED <<catalog, purged, profiles, pages, seed>>

\* ------------------------------------------------------------- Return
ReturnedRequest_NoTimestamp(row, condition) ==
    [row EXCEPT !.status = "returned", !.return_condition = condition]

ReturnedRequest(row, condition) ==
    [row EXCEPT !.status = "returned", !.returned_at = now,
                !.return_condition = condition]

ReturnedItemStatus(condition) ==
    IF condition = "rusak" THEN "rusak" ELSE "tersedia"

\* approved -> returned, by admin or staff, as one transaction
HandleReturn(s, r, condition) ==
    /\ pc[s] = "idle"
    /\ LogRoom
    /\ IsStaff(s)
    /\ r \in RequestIds
    /\ borrowing_requests[r].status = "approved"
    /\ borrowing_requests' =
         [borrowing_requests EXCEPT ![r] = ReturnedRequest(@, condition)]
    /\ items' = [items EXCEPT ![borrowing_requests[r].item_id].status =
                    ReturnedItemStatus(condition)]
    /\ activity_logs' = InsertLog(s, LogEntry(r, "return", s, condition))
    /\ reading' = Notified(TRUE, TRUE)
    /\ UNCHANGED <<user_roles, env, faults, ui, pc, call>>
    /\ UNCHANGED still

\* ------------------------------------------------------------- roles
\* INSERT or DELETE on user_roles, under "Only admins can manage roles"
ManageRole(s, u, r, grant) ==
    /\ roleChanges < MaxRoleChanges
    /\ (<<u, r>> \in user_roles) # grant
    /\ IF CanManageRoles(s)
       THEN /\ user_roles' = IF grant THEN user_roles \cup {<<u, r>>}
                             ELSE user_roles \ {<<u, r>>}
            /\ roleChanges' = roleChanges + 1
            /\ UNCHANGED denied
       ELSE /\ denied' = s
            /\ UNCHANGED <<user_roles, roleChanges>>
    /\ UNCHANGED <<items, borrowing_requests, activity_logs, now, insertedBy,
                   faults, ui, pc, call>>
    /\ UNCHANGED rest

\* useAuth: the role shown to the pages is read from the caller's
\* memberships when the session is (re)loaded
RolesOf(u) == IF \E r \in Roles : <<u, r>> \in user_roles
              THEN {r \in Roles : <<u, r>> \in user_roles} ELSE {"none"}

RefreshRole(s) ==
    /\ pc[s] = "idle"
    /\ \E r \in RolesOf(s) :
         /\ r # userRole[s]
         /\ userRole' = [userRole EXCEPT ![s] = r]
    /\ UNCHANGED <<db, env, faults, requests, selectedRequest, dialogOpen,
                   approvalNotes, pc, call>>
    /\ UNCHANGED rest

\* ------------------------------------------------- statements on the tables
\* Row security is enabled on every table and a statement kind that no
\* policy names is allowed for no row.
CanDeleteRequest(uid, row) == FALSE

CanUpdateLog(uid, row) == FALSE

CanDeleteLog(uid, row) == FALSE

\* item_id ... REFERENCES items(id) ON DELETE CASCADE
RequestsOfItems(ids) ==
    {r \in RequestIds : borrowing_requests[r].item_id \in ids}

\* request_id ... REFERENCES borrowing_requests(id) ON DELETE CASCADE
LogsWithout(ids) ==
    LET kept == {e \in BagToSet(activity_logs) : e.request_id \notin ids}
    IN [e \in kept |-> CopiesIn(e, activity_logs)]

\* DELETE FROM items WHERE id = i, with the deletes that cascade from it
DeleteItem(s, i) ==
    /\ pc[s] = "idle"
    /\ i \in catalog
    /\ IF CanManageItems(s)
       THEN /\ catalog' = catalog \ {i}
            /\ purged' = purged \cup RequestsOfItems({i})
            /\ activity_logs' = LogsWithout(RequestsOfItems({i}))
            /\ reading' = Notified(TRUE, RequestsOfItems({i}) # {})
            /\ UNCHANGED denied
       ELSE /\ denied' = s
            /\ UNCHANGED <<catalog, purged, activity_logs, reading>>
    /\ UNCHANGED <<user_roles, items, borrowing_requests, now, roleChanges,
                   insertedBy, faults, ui, pc, call, aside, profiles, shown>>

\* INSERT INTO items: the new row takes an id that no row has
InsertItem(s, i) ==
    /\ pc[s] = "idle"
    /\ i \in ItemIds \ catalog
    /\ IF CanManageItems(s)
       THEN /\ catalog' = catalog \cup {i}
            /\ items' = [items EXCEPT ![i] =
                            [name |-> SeedName, status |-> "tersedia"]]
            /\ reading' = Notified(TRUE, FALSE)
            /\ UNCHANGED denied
       ELSE /\ denied' = s
            /\ UNCHANGED <<catalog, items, reading>>
    /\ UNCHANGED <<user_roles, borrowing_requests, activity_logs, now,
                   roleChanges, insertedBy, faults, ui, pc, call, aside, purged,
                   profiles, shown>>

\* UPDATE items SET status = st WHERE id = i
UpdateItem(s, i, st) ==
    /\ pc[s] = "idle"
    /\ i \in catalog
    /\ items[i].status # st
    /\ IF CanManageItems(s)
       THEN /\ items' = [items EXCEPT ![i].status = st]
            /\ reading' = Notified(TRUE, FALSE)
            /\ UNCHANGED denied
       ELSE /\ denied' = s
            /\ UNCHANGED <<items, reading>>
    /\ UNCHANGED <<user_roles, borrowing_requests, activity_logs, now,
                   roleChanges, insertedBy, faults, ui, pc, call, still>>

\* DELETE FROM borrowing_requests WHERE id = r
DeleteRequest(s, r) ==
    /\ pc[s] = "idle"
    /\ r \in RequestIds
    /\ IF CanDeleteRequest(s, borrowing_requests[r])
       THEN /\ purged' = purged \cup {r}
            /\ activity_logs' = LogsWithout({r})
            /\ reading' = Notified(FALSE, TRUE)
            /\ UNCHANGED denied
       ELSE /\ denied' = s
            /\ UNCHANGED <<purged, activity_logs, reading>>
    /\ UNCHANGED <<user_roles, items, borrowing_requests, now, roleChanges,
                   insertedBy, faults, ui, pc, call, aside, catalog, profiles,
                   shown>>

\* UPDATE activity_logs SET notes = text WHERE the row is e
UpdateLog(s, e, text) ==
    /\ pc[s] = "idle"
    /\ BagIn(e, activity_logs)
    /\ e.notes # text
    /\ IF CanUpdateLog(s, e)
       THEN /\ activity_logs' =
                 (activity_logs (-) SetToBag({e}))
                    (+) SetToBag({[e EXCEPT !.notes = text]})
            /\ UNCHANGED denied
       ELSE /\ denied' = s
            /\ UNCHANGED activity_logs
    /\ UNCHANGED <<user_roles, items, borrowing_requests, now, roleChanges,
                   insertedBy, faults, ui, pc, call, rest>>

\* DELETE FROM activity_logs WHERE the row is e
DeleteLog(s, e) ==
    /\ pc[s] = "idle"
    /\ BagIn(e, activity_logs)
    /\ IF CanDeleteLog(s, e)
       THEN /\ activity_logs' = activity_logs (-) SetToBag({e})
            /\ UNCHANGED denied
       ELSE /\ denied' = s
            /\ UNCHANGED activity_logs
    /\ UNCHANGED <<user_roles, items, borrowing_requests, now, roleChanges,
                   insertedBy, faults, ui, pc, call, rest>>

\* UPDATE profiles SET kelas = k WHERE id = u
UpdateProfile(s, u, k) ==
    /\ pc[s] = "idle"
    /\ profiles[u].kelas # k
    /\ IF CanUpdateProfile(s, u)
       THEN /\ profiles' = [profiles EXCEPT ![u].kelas = k]
            /\ UNCHANGED denied
       ELSE /\ denied' = s
            /\ UNCHANGED profiles
    /\ UNCHANGED <<db, now, roleChanges, insertedBy, faults, ui, pc, call,
                   aside, catalog, purged, pages>>

\* ------------------------------------------------------- numbers
\* A JavaScript number is an IEEE 754 binary64: a significand of 53 bits and
\* a power of two.  A significand is kept in four limbs,
\*    w3 * 2^52 + w2 * 2^34 + w1 * 2^16 + w0,
\* and [kind |-> "finite", k |-> k, sig |-> w] stands for w * 2^(-k-52).
\* The counts of the pages are not negative and approved <= total.
Limb == 262144
LowLimb == 65536

NoSig == [w3 |-> 0, w2 |-> 0, w1 |-> 0, w0 |-> 0]
Zero == [kind |-> "zero", k |-> 0, sig |-> NoSig]
NaN == [kind |-> "nan", k |-> 0, sig |-> NoSig]
Infinity == [kind |-> "infinity", k |-> 0, sig |-> NoSig]

RECURSIVE Pow2(_)
Pow2(k) == IF k = 0 THEN 1 ELSE 2 * Pow2(k - 1)

\* w + n, for a small n
AddLow(w, n) ==
    LET s0 == w.w0 + n
        s1 == w.w1 + s0 \div LowLimb
        s2 == w.w2 + s1 \div Limb
    IN [w3 |-> w.w3 + s2 \div Limb, w2 |-> s2 % Limb, w1 |-> s1 % Limb,
        w0 |-> s0 % LowLimb]

\* round to nearest, ties to even: the low `drop` bits of w are cleared
Rounded(w, drop) ==
    LET unit == Pow2(drop)
        low == w.w0 % unit
        cleared == [w EXCEPT !.w0 = w.w0 - low]
        up == \/ 2 * low > unit
              \/ 2 * low = unit /\ (w.w0 \div unit) % 2 = 1
    IN IF up THEN AddLow(cleared, unit) ELSE cleared

\* the k with t <= a * 2^k < 2 * t, for 0 < a <= t
RECURSIVE Scale(_, _)
Scale(a, t) == IF a >= t THEN 0 ELSE 1 + Scale(2 * a, t)

\* a / t: the leading 1, 52 more digits of the quotient and a guard digit by
\* long division, a sticky digit for what is left, rounded to 53 bits.  The
\* quotient is below 2, so rounding carries nothing out of the top limb.
Divide(a, t) ==
    IF t = 0 THEN (IF a = 0 THEN NaN ELSE Infinity)
    ELSE IF a = 0 THEN Zero
    ELSE LET k == Scale(a, t)
             r0 == a * Pow2(k) - t
             q2 == (r0 * Limb) \div t
             r1 == (r0 * Limb) % t
             q1 == (r1 * Limb) \div t
             r2 == (r1 * Limb) % t
             q0 == (r2 * LowLimb) \div t
             r3 == (r2 * LowLimb) % t
             guard == (2 * r3) \div t
             sticky == IF (2 * r3) % t = 0 THEN 0 ELSE 1
             \* the 53 bits, then the guard and sticky digits below them
             wide == [w3 |-> 4 + q2 \div (Limb \div 4),
                      w2 |-> 4 * (q2 % (Limb \div 4)) + q1 \div (Limb \div 4),
                      w1 |-> 4 * (q1 % (Limb \div 4)) + q0 \div (LowLimb \div 4),
                      w0 |-> 4 * (q0 % (LowLimb \div 4)) + 2 * guard + sticky]
             r == Rounded(wide, 2)
         IN [kind |-> "finite", k |-> k,
             sig |-> [w3 |-> r.w3 \div 4,
                      w2 |-> r.w2 \div 4 + (r.w3 % 4) * (Limb \div 4),
                      w1 |-> r.w1 \div 4 + (r.w2 % 4) * (Limb \div 4),
                      w0 |-> r.w0 \div 4 + (r.w1 % 4) * (LowLimb \div 4)]]

\* x * 100: the exact product, of 59 or 60 bits, rounded to 53 bits
TimesHundred(x) ==
    IF x.kind # "finite" THEN x
    ELSE LET l0 == x.sig.w0 * 100
             l1 == x.sig.w1 * 100 + l0 \div LowLimb
             l2 == x.sig.w2 * 100 + l1 \div Limb
             l3 == x.sig.w3 * 100 + l2 \div Limb
             p == [w3 |-> l3, w2 |-> l2 % Limb, w1 |-> l1 % Limb,
                   w0 |-> l0 % LowLimb]
         IN [kind |-> "finite", k |-> x.k,
             sig |-> Rounded(p, IF l3 >= 128 THEN 7 ELSE 6)]

\* what a template shows for a number that is NaN or Infinity
NaNShown == -1
InfinityShown == -2

\* Math.round: the nearest integer, a half going up
MathRound(x) ==
    IF x.kind = "nan" THEN NaNShown
    ELSE IF x.kind = "infinity" THEN InfinityShown
    ELSE IF x.kind = "zero" THEN 0
    ELSE x.sig.w3 \div Pow2(x.k) +
         (IF x.k = 0 THEN x.sig.w2 \div (Limb \div 2)
          ELSE ((2 * x.sig.w3) \div Pow2(x.k)) % 2)

\* Reports, card Disetujui: the share of approved requests
ApprovedRate(stats) ==
    IF stats.totalRequests > 0
    THEN MathRound(TimesHundred(Divide(stats.approvedRequests,
                                       stats.totalRequests)))
    ELSE 0

\* Reports, column Tingkat Persetujuan of a department row
DepartmentRate(dept) ==
    MathRound(TimesHundred(Divide(dept.approvedRequests, dept.totalRequests)))

\* ------------------------------------------------------- page fetches
\* the rows a caller owns
OwnRequests(uid) ==
    {r \in RequestIds : borrowing_requests[r].borrower_id = uid}

\* .order(..., { ascending: false }).limit(n): the n newest of the rows
RECURSIVE Newest(_, _)
Newest(rows, n) ==
    IF n = 0 \/ rows = {} THEN {}
    ELSE {SetMax(rows)} \cup Newest(rows \ {SetMax(rows)}, n - 1)

RecentLimit == 5
ActivityLimit == 50

\* the session navigates to the Dashboard or to the Reports page: the page
\* is mounted with its initial state, the page left is unmounted and its
\* channels are removed; Reports starts fetchReportData from its mount
\* effect, the Dashboard calls fetchStats and fetchRecentRequests
Mount(s, page) ==
    /\ s \in DOMAIN reading => reading[s].page # page
    /\ reading' = With(reading, s,
                       [NotReading EXCEPT
                          !.page = page,
                          !.due = IF page = "dashboard"
                                  THEN [stats |-> 1, recent |-> 1] ELSE NoDue,
                          !.report = IF page = "reports" THEN "stats"
                                     ELSE "idle"])
    /\ dashboard' = IF page = "dashboard" THEN With(dashboard, s, NoStats)
                    ELSE Without(dashboard, s)
    /\ recentRequests' = IF page = "dashboard" THEN With(recentRequests, s, {})
                         ELSE Without(recentRequests, s)
    /\ reports' = IF page = "reports" THEN With(reports, s, NoReport)
                  ELSE Without(reports, s)
    /\ UNCHANGED <<db, env, faults, ui, pc, call, aside, catalog, purged, profiles>>

\* Dashboard.fetchStats, first await: from('items').select('status')
ItemCounts ==
    [totalItems |-> Cardinality(catalog),
     availableItems |->
        Cardinality({i \in catalog : items[i].status = "tersedia"}),
     borrowedItems |->
        Cardinality({i \in catalog : items[i].status = "dipinjam"}),
     overdueItems |->
        Cardinality({i \in catalog : items[i].status = "overdue"})]

\* Dashboard.fetchStats, the counts taken from the request rows returned
RequestCounts(uid, rows) ==
    [pendingRequests |->
        Cardinality({r \in rows : borrowing_requests[r].status = "pending"}),
     myActiveRequests |->
        Cardinality({r \in rows :
                       /\ borrowing_requests[r].borrower_id = uid
                       /\ borrowing_requests[r].status \in {"pending", "approved"}})]

DashboardStats(read, uid, rows) ==
    [totalItems |-> read.totalItems, availableItems |-> read.availableItems,
     borrowedItems |-> read.borrowedItems, overdueItems |-> read.overdueItems,
     pendingRequests |-> RequestCounts(uid, rows).pendingRequests,
     myActiveRequests |-> RequestCounts(uid, rows).myActiveRequests]

\* fetchStats runs on mount and on every change notification; a call that
\* has read the items awaits its second query next to the other calls
FetchStatsItems(s) ==
    /\ s \in DOMAIN dashboard
    /\ reading[s].due.stats > 0
    /\ BagCardinality(reading[s].calls) < MaxCalls
    /\ reading' = [reading EXCEPT
                     ![s].due.stats = @ - 1,
                     ![s].calls = @ (+) SetToBag({ItemCounts})]
    /\ UNCHANGED <<db, env, faults, ui, pc, call, aside, catalog, purged, profiles,
                   reports, dashboard, recentRequests>>

\* second await of one of the calls, in any order:
\* from('borrowing_requests').select('status, borrower_id'), then setStats
FetchStatsRequests(s) ==
    /\ s \in DOMAIN dashboard
    /\ \E read \in BagToSet(reading[s].calls) :
          /\ dashboard' = [dashboard EXCEPT ![s] =
                              DashboardStats(read, s, VisibleRequests(s))]
          /\ reading' = [reading EXCEPT ![s].calls = @ (-) SetToBag({read})]
    /\ UNCHANGED <<db, env, faults, ui, pc, call, aside, catalog, purged, profiles,
                   reports, recentRequests>>

\* Dashboard.fetchRecentRequests: the page adds a borrower filter when the
\* role it holds is siswa
RecentRows(role, uid, rows) ==
    Newest(IF role = "siswa"
           THEN {r \in rows : borrowing_requests[r].borrower_id = uid}
           ELSE rows, RecentLimit)

FetchRecentRequests(s) ==
    /\ s \in DOMAIN recentRequests
    /\ reading[s].due.recent > 0
    /\ recentRequests' = [recentRequests EXCEPT ![s] =
                            RecentRows(userRole[s], s, VisibleRequests(s))]
    /\ reading' = [reading EXCEPT ![s].due.recent = @ - 1]
    /\ UNCHANGED <<db, env, faults, ui, pc, call, aside, catalog, purged, profiles,
                   reports, dashboard>>

\* Reports.fetchReportData: the overall statistics of the rows returned
Overdue(r) ==
    /\ borrowing_requests[r].status = "approved"
    /\ borrowing_requests[r].returned_at = NullTime
    /\ borrowing_requests[r].end_time < now

ReportStats_ActiveAnyStatus(rows) ==
    [totalRequests |-> Cardinality(rows),
     approvedRequests |->
        Cardinality({r \in rows : borrowing_requests[r].status = "approved"}),
     rejectedRequests |->
        Cardinality({r \in rows : borrowing_requests[r].status = "rejected"}),
     activeLoans |->
        Cardinality({r \in rows : borrowing_requests[r].returned_at = NullTime}),
     returnedItems |->
        Cardinality({r \in rows : borrowing_requests[r].returned_at # NullTime}),
     overdueItems |-> Cardinality({r \in rows : Overdue(r)})]

ReportStats(rows) ==
    [totalRequests |-> Cardinality(rows),
     approvedRequests |->
        Cardinality({r \in rows : borrowing_requests[r].status = "approved"}),
     rejectedRequests |->
        Cardinality({r \in rows : borrowing_requests[r].status = "rejected"}),
     activeLoans |->
        Cardinality({r \in rows :
                       /\ borrowing_requests[r].status = "approved"
                       /\ borrowing_requests[r].returned_at = NullTime}),
     returnedItems |->
        Cardinality({r \in rows : borrowing_requests[r].returned_at # NullTime}),
     overdueItems |-> Cardinality({r \in rows : Overdue(r)})]

\* record.profiles?.jurusan || 'Tidak Diketahui'
JurusanOf(r) ==
    IF profiles[borrowing_requests[r].borrower_id].jurusan = NullText
    THEN "Tidak Diketahui"
    ELSE profiles[borrowing_requests[r].borrower_id].jurusan

\* one entry per department that has a row
DepartmentStats(rows) ==
    {[jurusan |-> j,
      totalRequests |-> Cardinality({r \in rows : JurusanOf(r) = j}),
      approvedRequests |->
         Cardinality({r \in rows : /\ JurusanOf(r) = j
                                   /\ borrowing_requests[r].status = "approved"})]
       : j \in {JurusanOf(r) : r \in rows}}

SortedByTotal_Ascending(S) ==
    {seq \in [1..Cardinality(S) -> S] :
       /\ \A i \in DOMAIN seq, j \in DOMAIN seq : seq[i] = seq[j] => i = j
       /\ \A i \in DOMAIN seq, j \in DOMAIN seq :
             i < j => seq[i].totalRequests <= seq[j].totalRequests}

\* .sort((a, b) => b.totalRequests - a.totalRequests) of the values of
\* deptMap.  The query names no order, so the entries enter the map in any
\* order and entries of equal totalRequests keep that order.
SortedByTotal(S) ==
    {seq \in [1..Cardinality(S) -> S] :
       /\ \A i \in DOMAIN seq, j \in DOMAIN seq : seq[i] = seq[j] => i = j
       /\ \A i \in DOMAIN seq, j \in DOMAIN seq :
             i < j => seq[i].totalRequests >= seq[j].totalRequests}

\* one entry per item that an approved row names; the page shows no order
\* of the entries that a statement here reads
ItemStats(rows) ==
    LET approved == {r \in rows : borrowing_requests[r].status = "approved"}
    IN {[item_id |-> i, itemName |-> items[i].name,
         totalBorrowed |->
            Cardinality({r \in approved : borrowing_requests[r].item_id = i}),
         currentStatus |-> items[i].status]
          : i \in {borrowing_requests[r].item_id : r \in approved}}

\* first await: select('*'), then setStats
FetchReportData(s) ==
    /\ s \in DOMAIN reports
    /\ reading[s].report = "stats"
    /\ reports' = [reports EXCEPT ![s].stats = ReportStats(VisibleRequests(s))]
    /\ reading' = [reading EXCEPT ![s].report = "items"]
    /\ UNCHANGED <<db, env, faults, ui, pc, call, aside, catalog, purged, profiles,
                   dashboard, recentRequests>>

\* the item query, then setItemStats
FetchItemStats(s) ==
    /\ s \in DOMAIN reports
    /\ reading[s].report = "items"
    /\ reports' = [reports EXCEPT ![s].itemStats = ItemStats(VisibleRequests(s))]
    /\ reading' = [reading EXCEPT ![s].report = "dept"]
    /\ UNCHANGED <<db, env, faults, ui, pc, call, aside, catalog, purged, profiles,
                   dashboard, recentRequests>>

\* the department query, then setDepartmentStats
FetchDepartmentStats(s) ==
    /\ s \in DOMAIN reports
    /\ reading[s].report = "dept"
    /\ \E sorted \in SortedByTotal(DepartmentStats(VisibleRequests(s))) :
          reports' = [reports EXCEPT ![s].departmentStats = sorted]
    /\ reading' = [reading EXCEPT ![s].report = "recent"]
    /\ UNCHANGED <<db, env, faults, ui, pc, call, aside, catalog, purged, profiles,
                   dashboard, recentRequests>>

\* the recent-activity query, then setRecentActivities; finally
\* setLoading(false)
FetchRecentActivities(s) ==
    /\ s \in DOMAIN reports
    /\ reading[s].report = "recent"
    /\ reports' = [reports EXCEPT ![s].recentActivities =
                                     Newest(VisibleRequests(s), ActivityLimit),
                                  ![s].loading = FALSE]
    /\ reading' = [reading EXCEPT ![s].report = "idle"]
    /\ UNCHANGED <<db, env, faults, ui, pc, call, aside, catalog, purged, profiles,
                   dashboard, recentRequests>>

\* a query of fetchReportData returns an error: throw, the catch logs and
\* shows 'Gagal memuat data laporan', finally setLoading(false)
ReportQueryFails(s) ==
    /\ s \in DOMAIN reports
    /\ reading[s].report # "idle"
    /\ faults < MaxFaults
    /\ faults' = faults + 1
    /\ reports' = [reports EXCEPT ![s].loading = FALSE]
    /\ reading' = [reading EXCEPT ![s].report = "idle"]
    /\ UNCHANGED <<db, env, ui, pc, call, aside, catalog, purged, profiles,
                   dashboard, recentRequests>>

\* ------------------------------------------------------- specifications
\* inputs of the flows that do not exercise the request form
Borrowers == {"sis"}
FixedStart == TzOffset + 1
FixedEnd == TzOffset + 2

\* the loan workflow: the student files requests, the admin's session
\* decides them on the Requests page, staff take the assets back
Deciders == {"adm"}

Next ==
    \/ \E s \in Borrowers, i \in ItemIds :
          HandleBorrowRequest(s, i, "Kuliah", FixedStart, FixedEnd)
    \/ \E s \in Borrowers : BorrowLog(s)
    \/ \E s \in Deciders : FetchRequests(s)
    \/ \E s \in Deciders, r \in RequestIds : ClickSetujui(s, r)
    \/ \E s \in Deciders : ClickBatal(s)
    \/ \E s \in Deciders : DismissDialog(s)
    \/ \E s \in Deciders : ClickDialogSetujui(s)
    \/ \E s \in Deciders, r \in RequestIds : ClickTolak(s, r)
    \/ \E s \in Deciders : ApproveUpdateItem(s)
    \/ \E s \in Deciders : ApproveRejectLog(s)
    \/ \E s \in Sessions, r \in RequestIds, c \in Conditions : HandleReturn(s, r, c)

Spec == Init /\ [][Next]_vars

\* two staff sessions deciding the same requests, each from its own list
StaffSessions == {"adm", "gur"}

NextStaff ==
    \/ Tick
    \/ \E s \in Borrowers :
          HandleBorrowRequest(s, "i1", "Kuliah", FixedStart, FixedEnd)
    \/ \E s \in Borrowers : BorrowLog(s)
    \/ \E s \in StaffSessions : FetchRequests(s)
    \/ \E s \in StaffSessions, r \in RequestIds : ClickSetujui(s, r)
    \/ \E s \in StaffSessions : ClickDialogSetujui(s)
    \/ \E s \in StaffSessions, r \in RequestIds : ClickTolak(s, r)
    \/ \E s \in StaffSessions : ApproveUpdateItem(s)
    \/ \E s \in StaffSessions : ApproveRejectLog(s)

SpecStaff == Init /\ [][NextStaff]_vars

\* filing requests: a staff member and the student use the form with every
\* input, and every session sends inserts that name another borrower
Creators == {"gur", "sis"}

NextCreate ==
    \/ \E s \in Creators, i \in ItemIds, p \in Purposes,
          st \in FormTimes, et \in FormTimes :
          HandleBorrowRequest(s, i, p, st, et)
    \/ \E s \in Sessions, b \in Users : InsertRequestAs(s, b, "i1")
    \/ \E s \in Sessions : BorrowLog(s)

SpecCreate == Init /\ [][NextCreate]_vars

\* one request, decided while the admin changes the student's memberships:
\* the admin's and the student's sessions
RoleSessions == {"adm", "sis"}
RoleTargets == {"sis"}

NextRoles ==
    \/ \E s \in RoleSessions, u \in RoleTargets, r \in Roles, g \in BOOLEAN :
          ManageRole(s, u, r, g)
    \/ \E s \in RoleSessions : RefreshRole(s)
    \/ \E s \in Borrowers :
          /\ borrowing_requests = <<>>
          /\ HandleBorrowRequest(s, "i1", "Kuliah", FixedStart, FixedEnd)
    \/ \E s \in RoleSessions : BorrowLog(s)
    \/ \E s \in RoleSessions : FetchRequests(s)
    \/ \E s \in RoleSessions, r \in RequestIds : ClickSetujui(s, r)
    \/ \E s \in RoleSessions : ClickDialogSetujui(s)
    \/ \E s \in RoleSessions, r \in RequestIds : ClickTolak(s, r)
    \/ \E s \in RoleSessions : ApproveUpdateItem(s)
    \/ \E s \in RoleSessions : ApproveRejectLog(s)

SpecRoles == Init /\ [][NextRoles]_vars

\* the admin decides the student's requests, with notes typed in the dialog
NextDecide ==
    \/ \E s \in Borrowers, i \in ItemIds :
          HandleBorrowRequest(s, i, "Kuliah", FixedStart, FixedEnd)
    \/ \E s \in Borrowers : BorrowLog(s)
    \/ \E s \in Deciders : FetchRequests(s)
    \/ \E s \in Deciders, r \in RequestIds : ClickSetujui(s, r)
    \/ \E s \in Deciders, x \in NoteTexts : TypeNotes(s, x)
    \/ \E s \in Deciders : ClickBatal(s)
    \/ \E s \in Deciders : DismissDialog(s)
    \/ \E s \in Deciders : ClickDialogSetujui(s)
    \/ \E s \in Deciders, r \in RequestIds : ClickTolak(s, r)
    \/ \E s \in Deciders : ApproveUpdateItem(s)
    \/ \E s \in Deciders : ApproveRejectLog(s)

SpecDecide == Init /\ [][NextDecide]_vars

\* the same, where every call of the request form succeeds: a failing
\* datastore call is one of an approve or a reject
NextDecideFails ==
    \/ \E s \in Borrowers, i \in ItemIds :
          /\ HandleBorrowRequest(s, i, "Kuliah", FixedStart, FixedEnd)
          /\ faults' = faults
    \/ \E s \in Borrowers : BorrowLog(s) /\ faults' = faults
    \/ \E s \in Deciders : FetchRequests(s)
    \/ \E s \in Deciders, r \in RequestIds : ClickSetujui(s, r)
    \/ \E s \in Deciders, x \in NoteTexts : TypeNotes(s, x)
    \/ \E s \in Deciders : ClickBatal(s)
    \/ \E s \in Deciders : DismissDialog(s)
    \/ \E s \in Deciders : ClickDialogSetujui(s)
    \/ \E s \in Deciders, r \in RequestIds : ClickTolak(s, r)
    \/ \E s \in Deciders : ApproveUpdateItem(s)
    \/ \E s \in Deciders : ApproveRejectLog(s)

SpecDecideFails == Init /\ [][NextDecideFails]_vars

\* every session edits profiles while the admin changes the student's
\* memberships
NextProfiles ==
    \/ \E s \in Sessions, u \in Users, k \in Kelas : UpdateProfile(s, u, k)
    \/ \E s \in RoleSessions, u \in RoleTargets, r \in Roles, g \in BOOLEAN :
          ManageRole(s, u, r, g)

SpecProfiles == Init /\ [][NextProfiles]_vars

\* statements sent to the tables by every session, next to the request form
NextTables ==
    \/ \E s \in Borrowers, i \in ItemIds :
          HandleBorrowRequest(s, i, "Kuliah", FixedStart, FixedEnd)
    \/ \E s \in Borrowers : BorrowLog(s)
    \/ \E s \in Sessions, i \in ItemIds : DeleteItem(s, i)
    \/ \E s \in Sessions, i \in ItemIds : InsertItem(s, i)
    \/ \E s \in Sessions, st \in ItemStatus : UpdateItem(s, "i1", st)
    \/ \E s \in Sessions, r \in RequestIds : DeleteRequest(s, r)
    \/ \E s \in Sessions, e \in BagToSet(activity_logs), x \in NoteTexts :
          UpdateLog(s, e, x)
    \/ \E s \in Sessions, e \in BagToSet(activity_logs) : DeleteLog(s, e)
    \/ \E u \in RoleTargets, r \in {"guru", "siswa"}, g \in BOOLEAN :
          ManageRole("adm", u, r, g)

SpecTables == Init /\ [][NextTables]_vars

\* the pages read the ledger: a staff member and the student file requests,
\* the admin makes the student a staff member and takes that away again,
\* and the student's session opens the Requests, Dashboard and Reports pages
\* (one fetchStats call at a time, and no call of the request form fails)
Readers == {"sis"}
ReadPages == {"dashboard", "reports"}

NextReads ==
    \/ \E s \in Creators :
          /\ HandleBorrowRequest(s, "i1", "Kuliah", FixedStart, FixedEnd)
          /\ faults' = faults
    \/ \E s \in Creators : BorrowLog(s) /\ faults' = faults
    \/ \E g \in BOOLEAN : ManageRole("adm", "sis", "guru", g)
    \/ \E s \in Readers : FetchRequests(s)
    \/ \E s \in Readers, p \in ReadPages : Mount(s, p)
    \/ \E s \in Readers : FetchStatsItems(s) /\ reading[s].calls = EmptyBag
    \/ \E s \in Readers : FetchStatsRequests(s)
    \/ \E s \in Readers : FetchRecentRequests(s)
    \/ \E s \in Readers : FetchReportData(s)
    \/ \E s \in Readers : FetchItemStats(s)
    \/ \E s \in Readers : FetchDepartmentStats(s)
    \/ \E s \in Readers : FetchRecentActivities(s)

SpecReads == Init /\ [][NextReads]_vars

\* the Reports page of the admin holds the counts of a ledger of up to
\* MaxTotal requests of one department, as loaded before those requests went
\* away with their assets; the page is opened again over the ledger at hand
RateCounts(a, t) ==
    [stats |-> [totalRequests |-> t, approvedRequests |-> a,
                rejectedRequests |-> t - a, activeLoans |-> a,
                returnedItems |-> 0, overdueItems |-> 0],
     itemStats |-> {},
     departmentStats |->
        IF t = 0 THEN <<>>
        ELSE <<[jurusan |-> "ti", totalRequests |-> t, approvedRequests |-> a]>>,
     recentActivities |-> {}, loading |-> FALSE]

InitRates ==
    /\ InitLedger
    /\ \E t \in 0..MaxTotal : \E a \in 0..t :
          reports = With(Unmounted, "adm", RateCounts(a, t))
    /\ reading = With(Unmounted, "adm", [NotReading EXCEPT !.page = "reports"])

NextRates ==
    \/ \E s \in Borrowers, i \in ItemIds :
          HandleBorrowRequest(s, i, "Kuliah", FixedStart, FixedEnd)
    \/ \E s \in Borrowers : BorrowLog(s)
    \/ \E s \in Deciders, p \in ReadPages : Mount(s, p)
    \/ \E s \in Deciders : FetchReportData(s)
    \/ \E s \in Deciders : FetchItemStats(s)
    \/ \E s \in Deciders : FetchDepartmentStats(s)
    \/ \E s \in Deciders : FetchRecentActivities(s)

SpecRates == InitRates /\ [][NextRates]_vars

\* loans running past their end: the student files a request that ends when
\* it starts, the admin approves it, takes the asset back or marks an asset
\* overdue, and opens the Dashboard and the Reports page as time passes
\* (one fetchStats call at a time)
NextOverdue ==
    \/ Tick
    \/ \E s \in Borrowers :
          HandleBorrowRequest(s, "i1", "Kuliah", FixedStart, FixedStart)
    \/ \E s \in Borrowers : BorrowLog(s)
    \/ \E s \in Deciders : FetchRequests(s)
    \/ \E s \in Deciders, r \in RequestIds : ClickSetujui(s, r)
    \/ \E s \in Deciders : ClickDialogSetujui(s)
    \/ \E s \in Deciders : ApproveUpdateItem(s)
    \/ \E s \in Deciders : ApproveRejectLog(s)
    \/ \E s \in Deciders, r \in RequestIds : HandleReturn(s, r, "baik")
    \/ \E s \in Deciders : UpdateItem(s, "i2", "overdue")
    \/ \E s \in Deciders, p \in ReadPages : Mount(s, p)
    \/ \E s \in Deciders : FetchStatsItems(s) /\ reading[s].calls = EmptyBag
    \/ \E s \in Deciders : FetchStatsRequests(s)
    \/ \E s \in Deciders : FetchReportData(s)
    \/ \E s \in Deciders : FetchItemStats(s)
    \/ \E s \in Deciders : FetchDepartmentStats(s)
    \/ \E s \in Deciders : FetchRecentActivities(s)

SpecOverdue == Init /\ [][NextOverdue]_vars

\* ------------------------------------------------------------- claims
Quiet == \A s \in Sessions : pc[s] = "idle"

Item(r) == items[borrowing_requests[r].item_id]

\* C1: once no handler is running and no datastore call has failed, every
\* approved request references an asset whose status is dipinjam or overdue.
C1_ApprovedAssetLoaned ==
    (Quiet /\ faults = 0) =>
        \A r \in RequestIds :
            borrowing_requests[r].status = "approved" =>
                Item(r).status \in {"dipinjam", "overdue"}

\* C2: approve is atomic: when an approve call has issued its request
\* update and its item update, the request update took effect exactly when
\* the update of the request's asset did.
C2_ApproveAtomic ==
    \A s \in Sessions :
        (pc[s] = "ar_log" /\ call[s].status = "approved"
            /\ call[s].requestId \in RequestIds) =>
            ((call[s].reqRows = 1) <=>
                (borrowing_requests[call[s].requestId].item_id \in call[s].itemRows))

\* C3: a pending request becomes approved only while its asset is tersedia;
\* otherwise the approval changes nothing.
C3_ApproveOnlyAvailable ==
    [][\A r \in RequestIds :
          (borrowing_requests[r].status = "pending"
              /\ borrowing_requests'[r].status = "approved") =>
              Item(r).status = "tersedia"]_vars

\* C4: a request's status changes only pending -> approved, pending ->
\* rejected or approved -> returned, and the approver and approval time of
\* a decided request are never overwritten.
AllowedTransitions ==
    {<<"pending", "approved">>, <<"pending", "rejected">>,
     <<"approved", "returned">>}

C4_StateMachine ==
    [][\A r \in RequestIds :
          LET old == borrowing_requests[r]
              new == borrowing_requests'[r]
          IN /\ old.status # new.status =>
                   <<old.status, new.status>> \in AllowedTransitions
             /\ old.status \in {"approved", "rejected"} =>
                   /\ new.approved_by = old.approved_by
                   /\ new.approved_at = old.approved_at]_vars

\* C5: every pending request has approved_at and returned_at NULL.
C5_PendingUndecided ==
    \A r \in RequestIds :
        borrowing_requests[r].status = "pending" =>
            /\ borrowing_requests[r].approved_at = NullTime
            /\ borrowing_requests[r].returned_at = NullTime

\* C5 witness: a request is still pending after another one was decided.
C5_Witness ==
    \E r, q \in RequestIds :
        /\ borrowing_requests[r].status = "pending"
        /\ borrowing_requests[q].approved_at # NullTime

OnlySiswa(u) == \A r \in Roles : <<u, r>> \in user_roles <=> r = "siswa"

DecisionSteps == {"ar_items", "ar_log"}

C7_StudentDecisionDenied ==
    [][\A s \in Sessions :
          (OnlySiswa(s) /\ pc'[s] # pc[s]
              /\ (pc[s] \in DecisionSteps \/ pc'[s] \in DecisionSteps)) =>
              UNCHANGED <<borrowing_requests, items, activity_logs>>]_vars

\* C8: the borrower of every request is the session that inserted it.
C8_BorrowerIsInserter ==
    \A r \in RequestIds : borrowing_requests[r].borrower_id = insertedBy[r]

\* C8 witness: the admin's insert for another borrower was refused while
\* requests exist.
C8_Witness == denied = "adm" /\ RequestIds # {}

\* C9: every stored request has start_time < end_time.
C9_WindowOrdered ==
    \A r \in RequestIds :
        borrowing_requests[r].start_time < borrowing_requests[r].end_time

\* C10: when no datastore call has failed, every request whose create call
\* has finished has exactly one 'request' log entry, and that entry is
\* performed by its borrower.
RequestLogs(r) ==
    {e \in BagToSet(activity_logs) : e.action = "request" /\ e.request_id = r}

Copies(S) ==
    LET RECURSIVE Sum(_)
        Sum(T) == IF T = {} THEN 0
                  ELSE LET e == CHOOSE x \in T : TRUE
                       IN CopiesIn(e, activity_logs) + Sum(T \ {e})
    IN Sum(S)

C10_OneLogPerCreate ==
    faults = 0 =>
        \A r \in RequestIds :
            (\A s \in Sessions : call[s].created # r) =>
                /\ Copies(RequestLogs(r)) = 1
                /\ \A e \in RequestLogs(r) :
                      e.performed_by = borrowing_requests[r].borrower_id

\* C11: the activity log is append-only: no step removes or changes an
\* entry.
C11_LogAppendOnly ==
    [][activity_logs \sqsubseteq activity_logs']_vars

\* C12: a reject of a pending request by admin or staff sets its status to
\* rejected and records the caller and the time as approved_by and
\* approved_at, and no step of the reject call changes an asset.
C12_RejectFrame ==
    [][\A s \in Sessions :
          /\ \A r \in RequestIds :
                (ClickTolak(s, r) /\ IsStaff(s)
                    /\ borrowing_requests[r].status = "pending"
                    /\ call'[s].reqRows = 1) =>
                    /\ borrowing_requests'[r].status = "rejected"
                    /\ borrowing_requests'[r].approved_by = s
                    /\ borrowing_requests'[r].approved_at = now
                    /\ items' = items
          /\ (pc[s] \in DecisionSteps /\ call[s].status = "rejected"
                 /\ pc'[s] # pc[s]) => items' = items]_vars

\* C12 witness: a reject call has finished and left its request rejected.
C12_Witness ==
    \E r \in RequestIds :
        /\ borrowing_requests[r].status = "rejected"
        /\ \E e \in BagToSet(activity_logs) :
              e.request_id = r /\ e.action = "reject"

\* C13: every decided request whose approve or reject call has finished has
\* exactly one 'approve' or 'reject' log entry; its action is that of the
\* decision, performed_by is the approver and notes are the approval_notes
\* stored on the request.
DecisionLogs(r) ==
    {e \in BagToSet(activity_logs) :
        e.request_id = r /\ e.action \in {"approve", "reject"}}

C13_OneLogPerDecision ==
    \A r \in RequestIds :
        (/\ borrowing_requests[r].status \in {"approved", "rejected"}
         /\ \A s \in Sessions :
               pc[s] \in DecisionSteps => call[s].requestId # r) =>
            /\ Copies(DecisionLogs(r)) = 1
            /\ \A e \in DecisionLogs(r) :
                  /\ e.action = IF borrowing_requests[r].status = "approved"
                                THEN "approve" ELSE "reject"
                  /\ e.performed_by = borrowing_requests[r].approved_by
                  /\ e.notes = borrowing_requests[r].approval_notes

ItemStatement(s) ==
    \E i \in ItemIds :
        \/ InsertItem(s, i)
        \/ DeleteItem(s, i)
        \/ \E st \in ItemStatus : UpdateItem(s, i, st)

C17_ReadsOwnOnly ==
    [][\A s \in Sessions : ~IsStaff(s) =>
          /\ requests'[s] # requests[s] => requests'[s] \subseteq OwnRequests(s)
          /\ FetchStatsRequests(s) =>
                \E read \in BagToSet(reading[s].calls) :
                   dashboard'[s] = DashboardStats(read, s, OwnRequests(s))
          /\ FetchRecentRequests(s) =>
                recentRequests'[s] = RecentRows(userRole[s], s, OwnRequests(s))
          /\ FetchReportData(s) =>
                reports'[s].stats = ReportStats(OwnRequests(s))
          /\ FetchDepartmentStats(s) =>
                reports'[s].departmentStats \in
                   SortedByTotal(DepartmentStats(OwnRequests(s)))
          /\ FetchRecentActivities(s) =>
                reports'[s].recentActivities =
                   Newest(OwnRequests(s), ActivityLimit)]_vars

\* C17 witness: the staff member's request is older than the student's;
\* the student, not staff, has the Reports page showing one request and the
\* one department of their own request, and the Requests list showing that
\* request alone
C17_Witness ==
    /\ ~IsStaff("sis")
    /\ "sis" \in DOMAIN reports
    /\ OwnRequests("gur") = {1}
    /\ OwnRequests("sis") = {2}
    /\ reports["sis"].stats.totalRequests = 1
    /\ reports["sis"].departmentStats \in SortedByTotal(DepartmentStats({2}))
    /\ reports["sis"].recentActivities = {2}
    /\ requests["sis"] = {2}

RoundedPercent(approved, total) ==
    IF total > 0 THEN (200 * approved + total) \div (2 * total) ELSE 0

\* C19: every approval rate the Reports page shows, the overall one and the
\* one of each department row, is round(100 * approved / total) when total
\* is positive and 0 when it is zero, and no rate is computed by dividing by
\* zero.
C19_ApprovalRates ==
    \A s \in DOMAIN reports :
       /\ ApprovedRate(reports[s].stats) =
             RoundedPercent(reports[s].stats.approvedRequests,
                            reports[s].stats.totalRequests)
       /\ \A k \in DOMAIN reports[s].departmentStats :
             LET dept == reports[s].departmentStats[k] IN
             /\ dept.totalRequests > 0
             /\ DepartmentRate(dept) =
                   RoundedPercent(dept.approvedRequests, dept.totalRequests)

\* the requests a caller can read that are overdue now
LiveOverdue(uid) ==
    {r \in VisibleRequests(uid) :
       /\ borrowing_requests[r].status = "approved"
       /\ borrowing_requests[r].returned_at = NullTime
       /\ now > borrowing_requests[r].end_time}

\* C20: an overdue count that a page displays is the number of requests
\* that are approved, not returned and past their end time when the page
\* reads them: the Terlambat card of Reports, and the Terlambat card of the
\* Dashboard, which is drawn when its count is positive.
C20_OverdueIsLive ==
    [][\A s \in Sessions :
          /\ FetchReportData(s) =>
                reports'[s].stats.overdueItems = Cardinality(LiveOverdue(s))
          /\ (FetchStatsRequests(s) /\ dashboard'[s].overdueItems > 0) =>
                dashboard'[s].overdueItems = Cardinality(LiveOverdue(s))]_vars

\* ------------------------------------------------------- messages
\* A toast is shown by the step that calls it.  toast.error('Gagal membuat
\* permintaan'): the request insert returned an error and the call returned
RequestErrorToast(s) ==
    \E i \in ItemIds, p \in Purposes, st \in FormTimes, et \in FormTimes :
       /\ HandleBorrowRequest(s, i, p, st, et)
       /\ borrowing_requests' = borrowing_requests

\* toast.error('Gagal memproses permintaan'): the request update returned an
\* error and the call returned
UpdateErrorToast(s) ==
    \E r \in RequestIds, status \in {"approved", "rejected"},
       selected \in RequestIds \cup {NullId} :
       /\ HandleApproveReject(s, r, status, selected)
       /\ pc'[s] = "idle"

ToastError(s) == RequestErrorToast(s) \/ UpdateErrorToast(s)

\* toast.success('Permintaan peminjaman berhasil dibuat'), after the log
\* insert of the create call
BorrowSuccessToast(s) == BorrowLog(s)

\* toast.success('Permintaan disetujui' or 'Permintaan ditolak'), after the
\* log insert of the approve or reject call
DecisionSuccessToast(s) == ApproveRejectLog(s)

ToastSuccess(s) == BorrowSuccessToast(s) \/ DecisionSuccessToast(s)

\* a step of a create, approve or reject call: one datastore write
WriteStep(s) ==
    \/ \E i \in ItemIds, p \in Purposes, st \in FormTimes, et \in FormTimes :
          HandleBorrowRequest(s, i, p, st, et)
    \/ BorrowLog(s)
    \/ \E r \in RequestIds, status \in {"approved", "rejected"},
          selected \in RequestIds \cup {NullId} :
          HandleApproveReject(s, r, status, selected)
    \/ ApproveUpdateItem(s)
    \/ ApproveRejectLog(s)

\* C21: a step of a create, approve or reject call whose datastore write
\* returns an error shows an error message and does not show the success
\* message.
C21_WriteErrorsShown ==
    [][\A s \in Sessions :
          (faults' # faults /\ WriteStep(s)) =>
              (ToastError(s) /\ ~ToastSuccess(s))]_vars

\* the requests for an asset that are pending or approved
ActiveRequests(i) ==
    {r \in RequestIds :
       /\ borrowing_requests[r].item_id = i
       /\ borrowing_requests[r].status \in {"pending", "approved"}}

\* C22: every asset has at most one request that is pending or approved.
C22_OneActivePerAsset ==
    \A i \in ItemIds : Cardinality(ActiveRequests(i)) <= 1

\* ------------------------------------------------------- seed-data
\* The function runs with the service-role key, which no policy filters.
\* One demo user stands for each group the script creates (admins, dosen,
\* mahasiswa) and one row for the list of items it inserts.
SeedUsers == <<"adm", "gur", "sis">>

IntendedRole(u) ==
    IF u = "adm" THEN "admin" ELSE IF u = "gur" THEN "guru" ELSE "siswa"

\* handle_new_user: the profile row made when an identity is created
NewProfile == [jurusan |-> NullText, kelas |-> NullText]

NoProfiles == [u \in {} |-> NewProfile]

\* the script after it is done with a user: the next user, or the items
AfterUser(sd) ==
    LET k == CHOOSE n \in DOMAIN SeedUsers : SeedUsers[n] = sd.user
    IN IF k < Len(SeedUsers)
       THEN [sd EXCEPT !.at = "createUser", !.user = SeedUsers[k + 1]]
       ELSE [sd EXCEPT !.at = "items", !.user = NullUser]

\* a request to the function: serve starts the script
SeedStart ==
    /\ seed.at = "idle"
    /\ seed.runs < MaxRuns
    /\ catalog # ItemIds
    /\ seed' = [at |-> "createUser", user |-> SeedUsers[1],
                runs |-> seed.runs + 1]
    /\ UNCHANGED <<db, env, faults, ui, pc, call, catalog, purged, profiles,
                   pages, notesFor>>

\* auth.admin.createUser: an email is taken once; on an error createUser
\* returns null and the script goes on with the next user
SeedCreateUser ==
    /\ seed.at = "createUser"
    /\ \E ok \in Outcomes :
         /\ Charge(ok)
         /\ IF ok /\ seed.user \notin DOMAIN profiles
            THEN /\ profiles' = With(profiles, seed.user, NewProfile)
                 /\ seed' = [seed EXCEPT !.at = "updateProfile"]
            ELSE /\ seed' = AfterUser(seed)
                 /\ UNCHANGED profiles
    /\ UNCHANGED <<db, env, ui, pc, call, catalog, purged, pages, notesFor>>

\* createUser, the profile update: an error is logged and the user returned
SeedUpdateProfile ==
    /\ seed.at = "updateProfile"
    /\ \E ok \in Outcomes :
         /\ Charge(ok)
         /\ profiles' = IF ok
                        THEN [profiles EXCEPT ![seed.user] = SeedProfile(seed.user)]
                        ELSE profiles
    /\ seed' = [seed EXCEPT !.at = "assignRole"]
    /\ UNCHANGED <<db, env, ui, pc, call, catalog, purged, pages, notesFor>>

\* assignRole: INSERT into user_roles, UNIQUE(user_id, role); an error is
\* logged
SeedAssignRole ==
    /\ seed.at = "assignRole"
    /\ \E ok \in Outcomes :
         /\ Charge(ok)
         /\ user_roles' = IF ok
                          THEN user_roles \cup {<<seed.user, IntendedRole(seed.user)>>}
                          ELSE user_roles
    /\ seed' = AfterUser(seed)
    /\ UNCHANGED <<items, borrowing_requests, activity_logs, env, ui, pc, call,
                   catalog, purged, profiles, pages, notesFor>>

\* INSERT into items of the list built by the script: every row takes a new
\* id; an error is logged; then the response
SeedItems ==
    /\ seed.at = "items"
    /\ \E ok \in Outcomes :
         /\ Charge(ok)
         /\ IF ok
            THEN \E i \in ItemIds \ catalog :
                    /\ catalog' = catalog \cup {i}
                    /\ items' = [items EXCEPT ![i] =
                                    [name |-> SeedName, status |-> "tersedia"]]
                    /\ reading' = Notified(TRUE, FALSE)
            ELSE UNCHANGED <<catalog, items, reading>>
    /\ seed' = [seed EXCEPT !.at = "idle"]
    /\ UNCHANGED <<user_roles, borrowing_requests, activity_logs, env, ui, pc,
                   call, purged, profiles, shown, notesFor>>

\* the function is called on a database that holds the schema and no row
InitSeed ==
    /\ user_roles = {}
    /\ items = [i \in ItemIds |-> [name |-> SeedName, status |-> "tersedia"]]
    /\ borrowing_requests = <<>>
    /\ activity_logs = EmptyBag
    /\ now = 1
    /\ roleChanges = 0
    /\ faults = 0
    /\ insertedBy = <<>>
    /\ denied = NullUser
    /\ userRole = [s \in Sessions |-> "none"]
    /\ requests = [s \in Sessions |-> {}]
    /\ selectedRequest = [s \in Sessions |-> NullId]
    /\ dialogOpen = [s \in Sessions |-> FALSE]
    /\ approvalNotes = [s \in Sessions |-> ""]
    /\ pc = [s \in Sessions |-> "idle"]
    /\ call = [s \in Sessions |-> IdleCall]
    /\ catalog = {}
    /\ purged = {}
    /\ profiles = NoProfiles
    /\ reports = Unmounted
    /\ dashboard = Unmounted
    /\ recentRequests = Unmounted
    /\ reading = Unmounted
    /\ seed = NotSeeding
    /\ notesFor = [s \in Sessions |-> NullId]

NextSeed ==
    \/ SeedStart
    \/ SeedCreateUser
    \/ SeedUpdateProfile
    \/ SeedAssignRole
    \/ SeedItems

SpecSeed == InitSeed /\ [][NextSeed]_vars

\* C24: when the seed-data function has run again and is done, no two
\* catalog rows carry the same seeded item and every demo user that exists
\* holds its intended role.
C24_SeedIdempotent ==
    (seed.at = "idle" /\ seed.runs >= 2) =>
        /\ \A i \in catalog, j \in catalog :
              items[i].name = items[j].name => i = j
        /\ \A u \in DOMAIN profiles :
              <<u, IntendedRole(u)>> \in user_roles

\* ------------------------------------------------------- report ledgers
\* The admin opens the Reports page over a ledger of up to MaxRows requests
\* for the first asset, as the handlers and the updates that staff send to
\* the table leave them: any borrower, any status, and returned_at set or
\* not on a row that was approved.
\* Time passes before the page is first opened.
LedgerRow(b, st, ret) ==
    [NewRequest("i1", b, "Kuliah", toISOString(FixedStart),
                toISOString(FixedStart))
       EXCEPT !.status = st, !.returned_at = ret]

LedgerRows ==
    {LedgerRow(b, st, NullTime) : b \in Creators, st \in RequestStatus}
       \cup {LedgerRow(b, st, 1) : b \in Creators, st \in {"approved", "returned"}}

InitReport ==
    /\ user_roles = {<<"adm", "admin">>, <<"gur", "guru">>, <<"sis", "siswa">>}
    /\ items = [i \in ItemIds |-> [name |-> SeedName, status |-> "tersedia"]]
    /\ \E n \in 0..MaxRows : borrowing_requests \in [1..n -> LedgerRows]
    /\ insertedBy = [r \in DOMAIN borrowing_requests |->
                       borrowing_requests[r].borrower_id]
    /\ activity_logs = EmptyBag
    /\ now = 1
    /\ roleChanges = 0
    /\ faults = 0
    /\ denied = NullUser
    /\ userRole = [s \in Sessions |->
                     CHOOSE r \in Roles : <<s, r>> \in user_roles]
    /\ requests = [s \in Sessions |-> {}]
    /\ selectedRequest = [s \in Sessions |-> NullId]
    /\ dialogOpen = [s \in Sessions |-> FALSE]
    /\ approvalNotes = [s \in Sessions |-> ""]
    /\ pc = [s \in Sessions |-> "idle"]
    /\ call = [s \in Sessions |-> IdleCall]
    /\ catalog = ItemIds
    /\ purged = {}
    /\ profiles = [u \in Users |-> SeedProfile(u)]
    /\ reports = Unmounted
    /\ dashboard = Unmounted
    /\ recentRequests = Unmounted
    /\ reading = Unmounted
    /\ seed = NotSeeding
    /\ notesFor = [s \in Sessions |-> NullId]

NextReport ==
    \/ reading = Unmounted /\ Tick
    \/ \E s \in Deciders, p \in ReadPages : Mount(s, p)
    \/ \E s \in Deciders : FetchReportData(s)
    \/ \E s \in Deciders : FetchItemStats(s)
    \/ \E s \in Deciders : FetchDepartmentStats(s)
    \/ \E s \in Deciders : FetchRecentActivities(s)
    \/ \E s \in Deciders : ReportQueryFails(s)

SpecReport == InitReport /\ [][NextReport]_vars

\* C25: when a query of the Reports aggregation fails, the page shows zero
\* counts, no item row, no department row and no activity, and is no longer
\* loading.
C25_FailedReportEmpty ==
    [][\A s \in Sessions :
          ReportQueryFails(s) =>
              reports'[s] = [NoReport EXCEPT !.loading = FALSE]]_vars

\* C29: the counts computed from the rows returned to Reports satisfy
\* overdueItems <= activeLoans <= approvedRequests and approvedRequests +
\* rejectedRequests <= totalRequests, and returnedItems is the number of
\* rows with returned_at set.
C29_CountsOrdered ==
    [][\A s \in Sessions :
          FetchReportData(s) =>
              LET st == reports'[s].stats IN
              /\ st.overdueItems <= st.activeLoans
              /\ st.activeLoans <= st.approvedRequests
              /\ st.approvedRequests + st.rejectedRequests <= st.totalRequests
              /\ st.returnedItems =
                    Cardinality({r \in VisibleRequests(s) :
                                   borrowing_requests[r].returned_at # NullTime})]_vars

\* C29 witness: the page shows counts of a ledger with an overdue loan, a
\* rejected request and a returned one.
C29_Witness ==
    \E s \in DOMAIN reports :
       /\ reports[s].stats.overdueItems >= 1
       /\ reports[s].stats.rejectedRequests >= 1
       /\ reports[s].stats.returnedItems >= 1
       /\ reports[s].stats.totalRequests = 3

RECURSIVE SumTotals(_)
SumTotals(seq) ==
    IF seq = <<>> THEN 0 ELSE Head(seq).totalRequests + SumTotals(Tail(seq))

\* C30: the department rows partition the fetched requests: each request is
\* counted in the one row of its borrower's department ('Tidak Diketahui'
\* without one), the totals sum to the number of requests, every row has
\* totalRequests >= 1 and approvedRequests <= totalRequests, and the rows
\* are in non-increasing order of totalRequests.
C30_DepartmentsPartition ==
    [][\A s \in Sessions :
          FetchDepartmentStats(s) =>
              LET d == reports'[s].departmentStats
                  rows == VisibleRequests(s)
              IN /\ \A r \in rows :
                       Cardinality({k \in DOMAIN d : d[k].jurusan = JurusanOf(r)}) = 1
                 /\ \A k \in DOMAIN d :
                       /\ d[k].totalRequests =
                             Cardinality({r \in rows : JurusanOf(r) = d[k].jurusan})
                       /\ d[k].totalRequests >= 1
                       /\ d[k].approvedRequests <= d[k].totalRequests
                 /\ SumTotals(d) = Cardinality(rows)
                 /\ \A k \in DOMAIN d :
                       k > 1 => d[k - 1].totalRequests >= d[k].totalRequests]_vars

\* C30 witness: the page lists two departments, the first with two requests
\* and the second with one.
C30_Witness ==
    \E s \in DOMAIN reports :
       /\ Len(reports[s].departmentStats) = 2
       /\ reports[s].departmentStats[1].totalRequests = 2
       /\ reports[s].departmentStats[2].totalRequests = 1

\* C27: an 'approve' or 'reject' log entry is appended only by a call whose
\* request update changed a row.
C27_LogOnlyForChange ==
    [][\A s \in Sessions :
          (ApproveRejectLog(s) /\ activity_logs' # activity_logs) =>
              call[s].reqRows > 0]_vars

\* C28: an approve stores on its request the notes of the field, which were
\* typed while the dialog was open for that request, and a reject stores
\* empty notes.
C28_NotesOfTheDialog ==
    [][\A s \in Sessions, r \in RequestIds :
          /\ (ClickDialogSetujui(s) /\ selectedRequest[s] = r
                 /\ call'[s].reqRows = 1) =>
                /\ borrowing_requests'[r].approval_notes = approvalNotes[s]
                /\ approvalNotes[s] # "" => notesFor[s] = r
          /\ (ClickTolak(s, r) /\ call'[s].reqRows = 1) =>
                borrowing_requests'[r].approval_notes = ""]_vars

\* C26: a step of an approve or reject call whose request update returns an
\* error ends the call (no step of it is left to run), changes no request,
\* no asset and no log entry, and leaves the dialog and the notes as they
\* were.
C26_FailedUpdateStops ==
    [][\A s \in Sessions :
          (/\ faults' # faults
           /\ \/ ClickDialogSetujui(s)
              \/ \E r \in RequestIds : ClickTolak(s, r)) =>
              /\ pc'[s] = "idle"
              /\ UNCHANGED <<borrowing_requests, items, activity_logs>>
              /\ dialogOpen'[s] = dialogOpen[s]
              /\ approvalNotes'[s] = approvalNotes[s]]_vars

\* C26 witness: every call of the request form has succeeded and logged its
\* request, no request is decided and a call has failed, so the failed call
\* was a request update; the admin's dialog is still open with the notes
\* typed into it.
C26_Witness ==
    /\ faults = 1
    /\ RequestIds # {}
    /\ \A r \in RequestIds :
          /\ borrowing_requests[r].status = "pending"
          /\ Copies(RequestLogs(r)) = 1
    /\ pc["adm"] = "idle"
    /\ dialogOpen["adm"]
    /\ approvalNotes["adm"] = "tepat waktu"

\* ------------------------------------------------------- dashboard
\* the admin has the Dashboard open while the student files requests and
\* a staff member marks the second asset damaged and repaired
NextDashboard ==
    \/ \E s \in Borrowers :
          HandleBorrowRequest(s, "i1", "Kuliah", FixedStart, FixedEnd)
    \/ \E s \in Borrowers : BorrowLog(s)
    \/ \E st \in {"rusak", "tersedia"} : UpdateItem("gur", "i2", st)
    \/ \E s \in Deciders, p \in ReadPages : Mount(s, p)
    \/ \E s \in Deciders : FetchStatsItems(s)
    \/ \E s \in Deciders : FetchStatsRequests(s)
    \/ \E s \in Deciders : FetchRecentRequests(s)

SpecDashboard == Init /\ [][NextDashboard]_vars

\* every change notification has been delivered and every call of
\* fetchStats and fetchRecentRequests of the session has completed
Settled(s) == reading[s].due = NoDue /\ reading[s].calls = EmptyBag

\* C23: once every change notification has been delivered to a Dashboard
\* and every fetchStats and fetchRecentRequests call of it has completed,
\* the stats and the recent feed it shows are those computed from the
\* tables as the caller can read them now.
C23_DashboardSettles ==
    \A s \in DOMAIN dashboard :
       Settled(s) =>
          /\ dashboard[s] = DashboardStats(ItemCounts, s, VisibleRequests(s))
          /\ recentRequests[s] =
                RecentRows(userRole[s], s, VisibleRequests(s))


====
